---- MODULE Spec2Model ----
(***************************************************************************)
(* A state-machine model of the text-to-voice application: the App         *)
(* component's handlers (src/unnamed/part_001), the AudioEngine and the    *)
(* StorageService (src/services/Storage.ts) and the text helpers           *)
(* (src/unnamed/part_000).                                                 *)
(*                                                                         *)
(* Conventions.                                                            *)
(*  - A string is a sequence of one-character strings.                     *)
(*  - A float sample x is kept as the integer x * 32768 (generateTTS       *)
(*    divides an int16 by 32768.0, so every sample is such a multiple).    *)
(*  - A playback rate r is kept as the integer 10 * r.                     *)
(*  - One action is one run of JavaScript between two suspension points    *)
(*    (an await that waits for the network, the store or the decoder), or  *)
(*    one event delivered by the browser.                                  *)
(*  - A handler that awaits reads the component state (text, title, mode,  *)
(*    audioState, library) of the render in which it was invoked: those    *)
(*    values are kept in the handler's own record.                         *)
(***************************************************************************)
EXTENDS Integers, Sequences, FiniteSets, TLC

VARIABLES
    text,          \* App: useState text                       (part_001:11)
    title,         \* App: useState title                      (part_001:12)
    mode,          \* App: useState mode                       (part_001:13)
    isGenerating,  \* App: useState isGenerating               (part_001:15)
    error,         \* App: useState error, "null" when none    (part_001:17)
    audioState,    \* App: useState audioState                 (part_001:18-26)
    library,       \* App: useState library                    (part_001:14)
    engine,        \* AudioEngine's fields and the sources it made
    gen,           \* the running handleGenerate, its locals and closure
    blobPlays,     \* the playFromBlob calls waiting for the decoder
    store,         \* the object store's items
    remote,        \* the speech requests of the current attempt
    nGen,          \* number of handleGenerate invocations so far
    loaded,        \* loadLibrary has run
    db,            \* StorageService: this.db, "null" or "open" (Storage.ts:9)
    opening,       \* StorageService calls that wait for their init()
    txns,          \* StorageService calls whose request is with the store
    done,          \* the last StorageService call that settled
    deletes,       \* the deleteFromLibrary calls that wait for the store
    probe,         \* a helper of part_000 applied to an input, and its result
    magic          \* the handleMagicScript call that waits for its script

vars == <<text, title, mode, isGenerating, error, audioState, library, engine, gen,
          blobPlays, store, remote, nGen, loaded, db, opening, txns, done,
          deletes, probe, magic>>

\* The App component's state and what its handlers wait for.
appVars == <<text, title, mode, isGenerating, error, audioState, library, engine,
             gen, blobPlays, remote, nGen, loaded, deletes, magic>>

\* The StorageService's calls in flight.
svcVars == <<opening, txns, done>>

-----------------------------------------------------------------------------
(* Bounds of the model.                                                    *)

\* Sources the engine creates in one run.
MaxSources == 2

\* Invocations of handleGenerate in one run.
MaxGen == 1

-----------------------------------------------------------------------------
(* Text helpers (src/unnamed/part_000).                                    *)

\* \s of the regular expressions, on the model's alphabet.
IsSpace(c) == c \in {" ", "\n"}

\* [.!?।] of splitIntoSentences; "|" stands for the danda.
IsTerminator(c) == c \in {".", "!", "?", "|"}

RECURSIVE TrimStart(_)
TrimStart(s) ==
    IF s # <<>> /\ IsSpace(Head(s)) THEN TrimStart(Tail(s)) ELSE s

RECURSIVE TrimEnd(_)
TrimEnd(s) ==
    IF s # <<>> /\ IsSpace(s[Len(s)])
    THEN TrimEnd(SubSeq(s, 1, Len(s) - 1))
    ELSE s

\* String.prototype.trim
Trim(s) == TrimEnd(TrimStart(s))

\* text.split(/(?<=[.!?।])\s+/): a separator is a maximal run of white space
\* that starts right after a terminator; i is the next position to read, cur
\* the piece being collected, acc the pieces closed so far.
RECURSIVE SplitFrom(_, _, _, _)
SplitFrom(s, i, cur, acc) ==
    IF i > Len(s) THEN Append(acc, cur)
    ELSE IF IsSpace(s[i]) /\ i > 1 /\ IsTerminator(s[i - 1])
         THEN LET RECURSIVE RunEnd(_)
                  RunEnd(j) == IF j <= Len(s) /\ IsSpace(s[j])
                               THEN RunEnd(j + 1) ELSE j
              IN SplitFrom(s, RunEnd(i), <<>>, Append(acc, cur))
         ELSE SplitFrom(s, i + 1, Append(cur, s[i]), acc)

\* .filter(s => s.trim().length > 0)
RECURSIVE FilterNonBlank(_)
FilterNonBlank(ps) ==
    IF ps = <<>> THEN <<>>
    ELSE IF Trim(Head(ps)) # <<>>
         THEN <<Head(ps)>> \o FilterNonBlank(Tail(ps))
         ELSE FilterNonBlank(Tail(ps))

splitIntoSentences(s) == FilterNonBlank(SplitFrom(s, 1, <<>>, <<>>))

\* JavaScript's value of an array element that does not exist.
Undefined == <<"undefined">>

\* arr[i] of a JavaScript array (0-based i).
At(arr, i) == IF i + 1 \in DOMAIN arr THEN arr[i + 1] ELSE Undefined

-----------------------------------------------------------------------------
(* cleanTextForTTS (src/unnamed/part_000:4-12), one replace per operator.  *)

\* . of the regular expressions: any character but a line terminator.
IsDot(c) == c # "\n"

\* .replace(/[#*.~_]/g, '') with the backquote where this comment has the
\* dot: the markdown symbols, without the backquote on the model's alphabet.
stripSymbols(s) ==
    LET Keep(c) == c \notin {"#", "*", "~", "_"} IN SelectSeq(s, Keep)

\* The end of the leftmost match of \[.*?\]\(.*?\) that starts at i, or 0:
\* the lazy quantifiers take the first "](" and then the first ")" that let
\* the whole expression match.
LinkEnd(s, i) ==
    LET Dots(a, b) == \A m \in a..b : IsDot(s[m])
        Closes(j) == {k \in (j + 2)..Len(s) : s[k] = ")" /\ Dots(j + 2, k - 1)}
        Mids == {j \in (i + 1)..(Len(s) - 1) :
                    /\ s[j] = "]"
                    /\ s[j + 1] = "("
                    /\ Dots(i + 1, j - 1)
                    /\ Closes(j) # {}}
        Min(S) == CHOOSE x \in S : \A y \in S : x <= y
    IN IF s[i] = "[" /\ Mids # {} THEN Min(Closes(Min(Mids))) ELSE 0

\* .replace(/\[.*?\]\(.*?\)/g, '')
RECURSIVE stripLinksFrom(_, _)
stripLinksFrom(s, i) ==
    IF i > Len(s) THEN <<>>
    ELSE IF LinkEnd(s, i) # 0 THEN stripLinksFrom(s, LinkEnd(s, i) + 1)
         ELSE <<s[i]>> \o stripLinksFrom(s, i + 1)

stripLinks(s) == stripLinksFrom(s, 1)

\* The first position at or after i whose character is not in C.
RECURSIVE RunEndOf(_, _, _)
RunEndOf(s, i, C) ==
    IF i <= Len(s) /\ s[i] \in C THEN RunEndOf(s, i + 1, C) ELSE i

\* The characters \s matches, on the model's alphabet.
Whitespace == {c \in {" ", "\n"} : IsSpace(c)}

\* .replace(/\n{2,}/g, '. ')
RECURSIVE pausesFrom(_, _)
pausesFrom(s, i) ==
    IF i > Len(s) THEN <<>>
    ELSE IF RunEndOf(s, i, {"\n"}) >= i + 2
         THEN <<".", " ">> \o pausesFrom(s, RunEndOf(s, i, {"\n"}))
         ELSE <<s[i]>> \o pausesFrom(s, i + 1)

\* [-•*+] of the bullet expression, on the model's alphabet.
IsBullet(c) == c \in {"-", "*", "+"}

\* .replace(/[-•*+]\s+/g, ', ')
RECURSIVE bulletsFrom(_, _)
bulletsFrom(s, i) ==
    IF i > Len(s) THEN <<>>
    ELSE IF IsBullet(s[i]) /\ RunEndOf(s, i + 1, Whitespace) > i + 1
         THEN <<",", " ">> \o bulletsFrom(s, RunEndOf(s, i + 1, Whitespace))
         ELSE <<s[i]>> \o bulletsFrom(s, i + 1)

\* .replace(/\s+/g, ' ')
RECURSIVE spacesFrom(_, _)
spacesFrom(s, i) ==
    IF i > Len(s) THEN <<>>
    ELSE IF IsSpace(s[i])
         THEN <<" ">> \o spacesFrom(s, RunEndOf(s, i, Whitespace))
         ELSE <<s[i]>> \o spacesFrom(s, i + 1)

cleanTextForTTS(s) ==
    Trim(spacesFrom(bulletsFrom(pausesFrom(stripLinks(stripSymbols(s)), 1), 1), 1))

-----------------------------------------------------------------------------
(* AudioEngine (src/services/Storage.ts:75-209).                           *)
(* engine.audioCtx is "null" before initContext, else the AudioContext's   *)
(* state; engine.currentSource is 0 for null, else an index of             *)
(* engine.sources, the AudioBufferSourceNodes created so far.  The engine  *)
(* reaches a node only through currentSource, so the one playbackRate it   *)
(* can read or write is kept as engine.rate (0 while currentSource is      *)
(* null); a node keeps what the browser knows of it: how often stop() was  *)
(* called on it, whether it played to its end, how often its ended event   *)
(* ran the handler.  suspend() and resume() of the AudioContext are        *)
(* requests: the context carries them out, and changes the state the       *)
(* engine reads, after the call has returned.  engine.pending holds the    *)
(* requests not yet carried out; with engine.queued false a request is     *)
(* carried out within the step that makes it.                              *)

\* Playback rates, times ten: 1.0 and 2.0 of the four the player offers.
Rates == {10, 20}

NoEngine ==
    [audioCtx |-> "null", currentSource |-> 0, isActuallyPlaying |-> FALSE,
     rate |-> 0, sources |-> <<>>, raised |-> FALSE,
     queued |-> FALSE, pending |-> <<>>]

\* The state a request leaves the context in.
stateAfter(request) == IF request = "suspend" THEN "suspended" ELSE "running"

\* audioCtx.suspend() or audioCtx.resume() is called.
request(e, r) ==
    IF e.queued THEN [e EXCEPT !.pending = Append(@, r)]
    ELSE [e EXCEPT !.audioCtx = stateAfter(r)]

\* The context's state once it has carried out what it was asked.
clockAfter(e) ==
    IF e.pending = <<>> THEN e.audioCtx ELSE stateAfter(e.pending[Len(e.pending)])

\* A source is audible-capable: started, not played to its end, never stopped.
Live(src) == ~src.finished /\ src.stopCalls = 0

LiveSources(e) == {k \in DOMAIN e.sources : Live(e.sources[k])}

initContext(e) ==
    IF e.audioCtx = "null" THEN [e EXCEPT !.audioCtx = "running"]
    ELSE IF e.audioCtx = "suspended" THEN request(e, "resume")
    ELSE e

\* stop() without the try/catch: the node's error leaves stop().
StopUncaught(threw) == threw

\* try { ... } catch (e) {} around currentSource.stop(): whether the error the
\* node threw leaves stop().
StopRethrows(threw) == FALSE

\* stop(): threw says whether the node's own stop() throws (a browser may
\* refuse to stop a node that has already finished).
stop(e, threw) ==
    IF e.currentSource # 0
    THEN [e EXCEPT !.sources[e.currentSource].stopCalls = @ + 1,
                   !.currentSource = 0,
                   !.rate = 0,
                   !.isActuallyPlaying = FALSE,
                   !.raised = @ \/ StopRethrows(threw)]
    ELSE [e EXCEPT !.isActuallyPlaying = FALSE]

\* May the node's stop() throw?  Only for a node that is no longer playing.
MayThrow(e) ==
    IF e.currentSource # 0 /\ e.sources[e.currentSource].finished
    THEN BOOLEAN ELSE {FALSE}

\* The rest of playBuffer after initContext() and stop(): the new node, its
\* rate, start(0), isActuallyPlaying.  liveBefore is the number of sources
\* still live at the moment the node is created.
startSource(e, rate) ==
    [e EXCEPT !.sources = Append(@, [stopCalls |-> 0, finished |-> FALSE,
                                     endedEvents |-> 0,
                                     liveBefore |-> Cardinality(LiveSources(e))]),
              !.currentSource = Len(e.sources) + 1,
              !.rate = rate,
              !.isActuallyPlaying = TRUE]

\* playBuffer without its call of stop().
playBufferNoStop(e, rate, threw) == startSource(initContext(e), rate)

playBuffer(e, rate, threw) == startSource(stop(initContext(e), threw), rate)

\* pause() that stops the source instead of suspending the clock.
pauseByStop(e) == stop(e, FALSE)

pause(e) ==
    IF e.audioCtx # "null" THEN request(e, "suspend") ELSE e

resume(e) ==
    IF e.audioCtx # "null" THEN request(e, "resume") ELSE e

setPlaybackRate(e, rate) ==
    IF e.currentSource # 0
    THEN [e EXCEPT !.rate = rate]
    ELSE e

-----------------------------------------------------------------------------
(* The remote speech capability and generateTTS (Storage.ts:108-147).      *)

Chars(w) ==
    CASE w = "quota" -> <<"q", "u", "o", "t", "a">>
      [] w = "QUOTA_FULL" -> <<"Q", "U", "O", "T", "A", "_", "F", "U", "L", "L">>
      [] w = "no quota left" -> <<"n", "o", " ", "q", "u", "o", "t", "a", " ",
                                  "l", "e", "f", "t">>
      [] w = "busy" -> <<"b", "u", "s", "y">>
      [] w = "net" -> <<"n", "e", "t">>
      [] w = "Failed to save audio" ->
           <<"F", "a", "i", "l", "e", "d", " ", "t", "o", " ", "s", "a", "v", "e">>
      [] w = "No audio data received" ->
           <<"N", "o", " ", "a", "u", "d", "i", "o", " ", "d", "a", "t", "a", " ",
             "r", "e", "c", "e", "i", "v", "e", "d">>
      [] w = "RangeError" -> <<"R", "a", "n", "g", "e">>
      [] w = "TypeError" -> <<"T", "y", "p", "e">>

\* String.prototype.includes
Includes(s, sub) ==
    \E i \in 1..(Len(s) - Len(sub) + 1) : SubSeq(s, i, i + Len(sub) - 1) = sub

\* The audio the remote voice speaks for a sentence, as the bytes of the
\* base64 payload: one sample for "a.", two for any other sentence.
Speech(sentence) ==
    IF sentence = <<"a", ".">> THEN <<1, 0>> ELSE <<2, 0, 255, 255>>

\* What the remote call can answer: audio bytes (the base64 payload, decoded),
\* a candidate without audio, or an error with a status and a message.  status 0 stands for an error that carries no status.
RemoteResponses(sentence) ==
    { [kind |-> "audio", bytes |-> Speech(sentence), status |-> 200, message |-> <<>>],
      [kind |-> "noaudio", bytes |-> <<>>, status |-> 200, message |-> <<>>],
      [kind |-> "error", bytes |-> <<>>, status |-> 429, message |-> Chars("busy")],
      [kind |-> "error", bytes |-> <<>>, status |-> 500, message |-> Chars("no quota left")],
      [kind |-> "error", bytes |-> <<>>, status |-> 500, message |-> Chars("net")] }

\* cleanTextForTTS(undefined) throws before any request is made.
NoRequest ==
    [kind |-> "typeerror", bytes |-> <<>>, status |-> 0, message |-> <<>>]

\* The store's request failed (Storage.ts:39).
StoreFailure ==
    [kind |-> "store", bytes |-> <<>>, status |-> 0,
     message |-> Chars("Failed to save audio")]

NoResponse ==
    [kind |-> "none", bytes |-> <<>>, status |-> 0, message |-> <<>>]

Outcomes(sentence) ==
    IF sentence = Undefined THEN {NoRequest} ELSE RemoteResponses(sentence)

\* new Int16Array(uint8.buffer): little-endian pairs, two's complement.
RECURSIVE Int16Array(_)
Int16Array(bytes) ==
    IF Len(bytes) < 2 THEN <<>>
    ELSE LET u == bytes[1] + 256 * bytes[2]
         IN <<IF u >= 32768 THEN u - 65536 ELSE u>>
            \o Int16Array(SubSeq(bytes, 3, Len(bytes)))

\* The body of generateTTS's try block: the samples, or the error thrown.
ttsTry(resp) ==
    CASE resp.kind = "error" ->
           [ok |-> FALSE, pcm |-> <<>>, status |-> resp.status, message |-> resp.message]
      [] resp.kind = "typeerror" ->
           [ok |-> FALSE, pcm |-> <<>>, status |-> 0, message |-> Chars("TypeError")]
      [] resp.kind = "noaudio" \/ (resp.kind = "audio" /\ resp.bytes = <<>>) ->
           [ok |-> FALSE, pcm |-> <<>>, status |-> 0,
            message |-> Chars("No audio data received")]
      [] resp.kind = "audio" /\ Len(resp.bytes) % 2 # 0 ->
           [ok |-> FALSE, pcm |-> <<>>, status |-> 0, message |-> Chars("RangeError")]
      [] OTHER ->
           [ok |-> TRUE, pcm |-> Int16Array(resp.bytes), status |-> 0, message |-> <<>>]

\* The test of the status alone.
IsQuotaErrorByStatus(err) == err.status = 429

\* error.message?.includes("quota") || error.status === 429
IsQuotaError(err) == Includes(err.message, Chars("quota")) \/ err.status = 429

\* generateTTS: the try block, then the catch that renames a quota error.
generateTTS(resp) ==
    LET r == ttsTry(resp)
    IN IF ~r.ok /\ IsQuotaError(r)
       THEN [r EXCEPT !.message = Chars("QUOTA_FULL")]
       ELSE r

-----------------------------------------------------------------------------
(* App (src/unnamed/part_001).                                             *)

\* The scripts the user types.
Texts ==
    { <<>>, <<" ">>, <<"a", ".">>, <<"a", ".", " ", "b", "!">> }

\* The titles the user types.
Titles == {"", "New Voice Studio"}

Modes == {"STUDY", "STORY"}

Voice(m) == IF m = "STUDY" THEN "Kore" ELSE "Zephyr"

\* !text, without the trim.
IsEmptyText(t) == t = <<>>

\* !text.trim()
IsBlank(t) == Trim(t) = <<>>

\* The merge loop of handleGenerate: finalPCM.set(chunk, offset).
RECURSIVE MergeFrom(_, _, _)
MergeFrom(chunks, offset, final) ==
    IF chunks = <<>> THEN final
    ELSE LET c == Head(chunks)
         IN MergeFrom(Tail(chunks), offset + Len(c),
                      [j \in DOMAIN final |->
                          IF j > offset /\ j <= offset + Len(c)
                          THEN c[j - offset] ELSE final[j]])

\* The merge without "offset += chunk.length": every chunk is written at 0.
mergeChunksAtZero(chunks, totalLength) ==
    LET RECURSIVE Over(_, _)
        Over(cs, final) ==
            IF cs = <<>> THEN final
            ELSE Over(Tail(cs), [j \in DOMAIN final |->
                                    IF j <= Len(Head(cs)) THEN Head(cs)[j]
                                    ELSE final[j]])
    IN Over(chunks, [j \in 1..totalLength |-> 0])

mergeChunks(chunks, totalLength) ==
    MergeFrom(chunks, 0, [j \in 1..totalLength |-> 0])

\* The float-to-int16 loop of pcmToMp3 and pcmToWav: clamp to [-1, 1], scale
\* a negative sample by 0x8000 and the others by 0x7FFF, truncate.
toInt16(x) ==
    LET s == IF x < -32768 THEN -32768 ELSE IF x > 32768 THEN 32768 ELSE x
    IN IF s < 0 THEN s ELSE (s * 32767) \div 32768

encodeSamples(pcm) == [j \in DOMAIN pcm |-> toInt16(pcm[j])]

-----------------------------------------------------------------------------
(* The encoders (src/unnamed/part_000:38-107).  A Blob is a record: its     *)
(* type and its bytes; thrown says the function threw instead of          *)
(* returning.                                                              *)

\* The bytes of v, most significant first: the DataView default when the
\* littleEndian argument is left out.
bigEndian(v, n) == [k \in 1..n |-> (v \div (256 ^ (n - k))) % 256]

\* The bytes of v, least significant first.
littleEndian(v, n) == [k \in 1..n |-> (v \div (256 ^ (k - 1))) % 256]

\* view.setUint32(offset, v) without the littleEndian flag.
setUint32NoFlag(v) == bigEndian(v, 4)

\* view.setUint32(offset, v, true): the value modulo 2^32, which is the
\* value itself for the sizes and rates of the model (all below 2^31).
setUint32(v) == littleEndian(v, 4)

\* view.setUint16(offset, v, true) and view.setInt16(offset, v, true): the
\* value modulo 2^16, which is the two's complement of a negative one.
setUint16(v) == littleEndian(v % (256 ^ 2), 2)

setInt16(v) == littleEndian(v % (256 ^ 2), 2)

\* charCodeAt of the four tags.
charCodes(tag) ==
    CASE tag = "RIFF" -> <<82, 73, 70, 70>>
      [] tag = "WAVE" -> <<87, 65, 86, 69>>
      [] tag = "fmt " -> <<102, 109, 116, 32>>
      [] tag = "data" -> <<100, 97, 116, 97>>

\* Bytes written into the buffer from a 0-based offset on.
write(buf, offset, bytes) ==
    [j \in DOMAIN buf |->
        IF j > offset /\ j <= offset + Len(bytes) THEN bytes[j - offset]
        ELSE buf[j]]

writeString(buf, offset, tag) == write(buf, offset, charCodes(tag))

\* The sample loop of pcmToWav, from sample i (1-based) on.
RECURSIVE writeSamples(_, _, _, _)
writeSamples(buf, pcmData, i, offset) ==
    IF i > Len(pcmData) THEN buf
    ELSE writeSamples(write(buf, offset, setInt16(toInt16(pcmData[i]))),
                      pcmData, i + 1, offset + 2)

pcmToWav(pcmData, sampleRate) ==
    LET n   == Len(pcmData)
        b0  == [j \in 1..(44 + n * 2) |-> 0]
        b1  == writeString(b0, 0, "RIFF")
        b2  == write(b1, 4, setUint32(36 + n * 2))
        b3  == writeString(b2, 8, "WAVE")
        b4  == writeString(b3, 12, "fmt ")
        b5  == write(b4, 16, setUint32(16))
        b6  == write(b5, 20, setUint16(1))
        b7  == write(b6, 22, setUint16(1))
        b8  == write(b7, 24, setUint32(sampleRate))
        b9  == write(b8, 28, setUint32(sampleRate * 2))
        b10 == write(b9, 32, setUint16(2))
        b11 == write(b10, 34, setUint16(16))
        b12 == writeString(b11, 36, "data")
        b13 == write(b12, 40, setUint32(n * 2))
    IN [type |-> "audio/wav", bytes |-> writeSamples(b13, pcmData, 1, 44),
        thrown |-> FALSE]

\* const sampleBlockSize = 1152
sampleBlockSize == 1152

\* lamejs is not code of the repository. Its encoder turns each block it is
\* fed into one frame, kept here as the samples it encodes, and may hold a
\* frame back until a later call: "lamejs" returns each frame at once,
\* "lamejs-held" one call later, the last one from flush.
delayOf(lame) == IF lame = "lamejs-held" THEN 1 ELSE 0

\* new lame.Mp3Encoder(1, sampleRate, 128), with the calls made on it.
Mp3Encoder(lame) == [delay |-> delayOf(lame), held |-> <<>>, calls |-> <<>>]

\* mp3encoder.encodeBuffer(sampleChunk): the encoder after the call.
encodeBuffer(enc, sampleChunk) ==
    LET q   == Append(enc.held, [frame |-> sampleChunk])
        out == IF Len(q) > enc.delay THEN <<Head(q)>> ELSE <<>>
    IN [enc EXCEPT !.held = IF Len(out) > 0 THEN Tail(q) ELSE q,
                   !.calls = Append(@, [op |-> "encodeBuffer",
                                        arg |-> sampleChunk, out |-> out])]

\* mp3encoder.flush(): the encoder after the call.
flush(enc) ==
    [enc EXCEPT !.held = <<>>,
                !.calls = Append(@, [op |-> "flush", arg |-> <<>>,
                                     out |-> enc.held])]

\* mp3buf: what the last call on the encoder returned.
mp3buf(enc) == enc.calls[Len(enc.calls)].out

\* if (mp3buf.length > 0) mp3Data.push(new Uint8Array(mp3buf))
push(mp3Data, buf) == IF Len(buf) > 0 THEN Append(mp3Data, buf) ELSE mp3Data

\* A block that stops one sample early.
blockEndShort(i, n) ==
    IF i + sampleBlockSize - 1 < n THEN i + sampleBlockSize - 1 ELSE n

\* The end of samples.subarray(i, i + sampleBlockSize), clamped to the
\* length n of the array.
blockEnd(i, n) == IF i + sampleBlockSize < n THEN i + sampleBlockSize ELSE n

\* The block loop of pcmToMp3, from sample i (0-based) on.
RECURSIVE encodeBlocks(_, _, _, _)
encodeBlocks(enc, mp3Data, samples, i) ==
    IF i >= Len(samples) THEN [enc |-> enc, mp3Data |-> mp3Data]
    ELSE LET e == encodeBuffer(enc, SubSeq(samples, i + 1,
                                           blockEnd(i, Len(samples))))
         IN encodeBlocks(e, push(mp3Data, mp3buf(e)), samples,
                         i + sampleBlockSize)

\* The block loop and the flush after it: the encoder and mp3Data.
mp3Run(pcmData, lame) ==
    LET b == encodeBlocks(Mp3Encoder(lame), <<>>, encodeSamples(pcmData), 0)
        f == flush(b.enc)
    IN [enc |-> f, mp3Data |-> push(b.mp3Data, mp3buf(f))]

\* new Blob(parts): the parts one after the other.
RECURSIVE Blob(_)
Blob(parts) == IF parts = <<>> THEN <<>> ELSE Head(parts) \o Blob(Tail(parts))

\* pcmToMp3 past the test of the backend: new lame.Mp3Encoder throws a
\* TypeError when lame is undefined.
encodeMp3(pcmData, sampleRate, lame) ==
    IF lame = "undefined"
    THEN [type |-> "TypeError", bytes |-> <<>>, thrown |-> TRUE]
    ELSE [type |-> "audio/mp3", bytes |-> Blob(mp3Run(pcmData, lame).mp3Data),
          thrown |-> FALSE]

\* The test of a function that never falls back.
backendAssumed(lame) == FALSE

\* !lame
backendMissing(lame) == lame = "undefined"

\* window.lamejs is undefined, or the library.
Backends == {"undefined", "lamejs", "lamejs-held"}

pcmToMp3(pcmData, sampleRate, lame) ==
    IF backendMissing(lame)
    THEN pcmToWav(pcmData, sampleRate)
    ELSE encodeMp3(pcmData, sampleRate, lame)

\* An item left in the store by an earlier session.
OldItem ==
    [id |-> 0, title |-> "Old", timestamp |-> 0, duration |-> 1,
     blob |-> <<7>>, mode |-> "STUDY", voice |-> "Kore"]

NoItem ==
    [id |-> -1, title |-> "", timestamp |-> 0, duration |-> 0,
     blob |-> <<>>, mode |-> "STUDY", voice |-> "Kore"]

\* A put that adds the record without replacing the one under its key.
putAdd(items, item) == items \cup {item}

\* store.put(item): the key path is id.
put(items, item) == {x \in items : x.id # item.id} \cup {item}

Ids(items) == {x.id : x \in items}

\* A delete that fails for a key the store does not hold.
deleteMissingFails(items, id) ==
    [items |-> {x \in items : x.id # id}, ok |-> id \in Ids(items)]

\* store.delete(id): the store after it, and whether the request succeeds
\* (an IndexedDB delete succeeds whether or not the key is present).
deleteRequest(items, id) ==
    [items |-> {x \in items : x.id # id}, ok |-> TRUE]

\* store.getAll(): the items in key order.
RECURSIVE getAll(_)
getAll(items) ==
    IF items = {} THEN <<>>
    ELSE LET first == CHOOSE x \in items : \A y \in items : x.id <= y.id
         IN <<first>> \o getAll(items \ {first})

\* The list as the store returned it.
unsorted(items) == items

\* items.sort((a, b) => b.timestamp - a.timestamp): a stable insertion of
\* each item after the items that are not older.
RECURSIVE sortNewestFirst(_)
sortNewestFirst(items) ==
    IF items = <<>> THEN <<>>
    ELSE LET rest == sortNewestFirst(SubSeq(items, 1, Len(items) - 1))
             x == items[Len(items)]
             n == Cardinality({k \in DOMAIN rest : rest[k].timestamp >= x.timestamp})
         IN SubSeq(rest, 1, n) \o <<x>> \o SubSeq(rest, n + 1, Len(rest))

InputMsg == "Please enter some text first."
QuotaMsg == "API Quota Full. Please wait a moment."
GenericMsg == "An error occurred during generation."

TopicMsg == "Enter a topic or some text first."
MagicMsg == "Magic Script failed. Please try again."

\* No handleMagicScript call is waiting.
IdleMagic == [pc |-> "idle", input |-> <<>>, mode |-> "STUDY"]

IdleGen ==
    [pc |-> "idle", i |-> 0, sentences |-> <<>>, title |-> "", mode |-> "STUDY",
     rate |-> 10,
     library |-> <<>>, chunks |-> <<>>, totalLength |-> 0, finalPCM |-> <<>>,
     item |-> NoItem]

NoRemote == [reqs |-> <<>>, resolved |-> 0, saves |-> 0, last |-> NoResponse]

\* The request generateTTS sends for one sentence, if it gets to send one.
issue(r, sentence, m) ==
    IF sentence = Undefined THEN r
    ELSE [r EXCEPT !.reqs = Append(@, [sentence |-> sentence, voice |-> Voice(m)])]

\* The player, with its stop, pause and rate buttons, is rendered.
PlayerShown == audioState.isPlaying \/ audioState.isPaused

\* blobPlays[r] is the number of playFromBlob calls with rate r that wait.
RECURSIVE Sum(_, _)
Sum(f, S) ==
    IF S = {} THEN 0
    ELSE LET x == CHOOSE y \in S : TRUE IN f[x] + Sum(f, S \ {x})

PendingBlobs == Sum(blobPlays, Rates)

\* Sources the calls already under way will still create.
\* A loop that plays each sentence as its samples arrive.
playsEveryChunk(i) == TRUE

\* Sentence i is played when its samples arrive: sentences[0] only, ahead
\* of the loop that starts at i = 1.
playsOnArrival(i) == i = 0

PendingPlays ==
    PendingBlobs + (IF gen.pc = "tts" /\ gen.i = 0 THEN 1 ELSE 0)

Room == Len(engine.sources) + PendingPlays < MaxSources

\* No StorageService call has settled yet.
NoCall ==
    [op |-> "none", item |-> NoItem, id |-> -1, lazy |-> FALSE,
     handle |-> "null", result |-> "none", listed |-> <<>>, before |-> {},
     n |-> 0]

\* No helper has been applied.
NoProbe == [f |-> "none", x |-> <<>>, y |-> <<>>]

Init ==
    /\ text = <<>>
    /\ title = "New Voice Studio"
    /\ mode = "STUDY"
    /\ isGenerating = FALSE
    /\ error = "null"
    /\ audioState = [isPlaying |-> FALSE, isPaused |-> FALSE, playbackRate |-> 10]
    /\ library = <<>>
    /\ engine = NoEngine
    /\ gen = IdleGen
    /\ blobPlays = [r \in Rates |-> 0]
    /\ store = {OldItem}
    /\ remote = NoRemote
    /\ nGen = 0
    /\ loaded = FALSE
    /\ db = "null"
    /\ opening = <<>>
    /\ txns = <<>>
    /\ done = NoCall
    /\ deletes = <<>>
    /\ magic = IdleMagic
    /\ probe = NoProbe


-----------------------------------------------------------------------------
(* The user's edit of the script (part_001:240).                           *)

SetText(t) ==
    /\ text' = t
    /\ UNCHANGED <<title, mode, isGenerating, error, audioState, library, engine,
                   gen, blobPlays, store, remote, nGen, loaded, db>>
    /\ UNCHANGED <<svcVars, deletes, probe, magic>>

-----------------------------------------------------------------------------
(* The user's edits of the title and the mode (part_001:216, 223, 229).    *)
(* Neither input is disabled while a generation runs.                      *)

SetTitle(t) ==
    /\ title' = t
    /\ UNCHANGED <<text, mode, isGenerating, error, audioState, library, engine,
                   gen, blobPlays, store, remote, nGen, loaded, db>>
    /\ UNCHANGED <<svcVars, deletes, probe, magic>>

SetMode(m) ==
    /\ mode' = m
    /\ UNCHANGED <<text, title, isGenerating, error, audioState, library, engine,
                   gen, blobPlays, store, remote, nGen, loaded, db>>
    /\ UNCHANGED <<svcVars, deletes, probe, magic>>

-----------------------------------------------------------------------------
(* loadLibrary (part_001:28-35).                                           *)

LoadLibrary ==
    /\ ~loaded
    /\ loaded' = TRUE
    /\ db' = "open"
    /\ library' = sortNewestFirst(getAll(store))
    /\ UNCHANGED <<text, title, mode, isGenerating, error, audioState, engine,
                   gen, blobPlays, store, remote, nGen>>
    /\ UNCHANGED <<svcVars, deletes, probe, magic>>

-----------------------------------------------------------------------------
(* handleGenerate (part_001:59-141).                                       *)

\* The click, up to the first await.  The button is disabled while
\* isGenerating; the handler's own test of the text is the one modelled.
HandleGenerate ==
    /\ ~isGenerating
    /\ nGen < MaxGen
    /\ nGen' = nGen + 1
    /\ IF IsBlank(text)
       THEN /\ error' = InputMsg
            /\ UNCHANGED <<isGenerating, gen, remote>>
       ELSE /\ Room
            /\ error' = "null"
            /\ isGenerating' = TRUE
            /\ LET sentences == splitIntoSentences(text)
               IN /\ gen' = [IdleGen EXCEPT !.pc = "tts",
                                            !.sentences = sentences,
                                            !.title = title,
                                            !.mode = mode,
                                            !.rate = audioState.playbackRate,
                                            !.library = library]
                  /\ remote' = issue(NoRemote, At(sentences, 0), mode)
    /\ UNCHANGED <<text, title, mode, audioState, library, engine, blobPlays,
                   store, loaded, db>>
    /\ UNCHANGED <<svcVars, deletes, probe, magic>>

\* The catch block without the finally block.
GenFailsNoFinally(message) ==
    /\ error' = IF message = Chars("QUOTA_FULL") THEN QuotaMsg ELSE GenericMsg
    /\ isGenerating' = isGenerating
    /\ gen' = IdleGen

\* The catch and finally blocks.
GenFails(message) ==
    /\ error' = IF message = Chars("QUOTA_FULL") THEN QuotaMsg ELSE GenericMsg
    /\ isGenerating' = FALSE
    /\ gen' = IdleGen

\* An attempt that sends its last request once more when it ends.
reissued(r, resp) ==
    [r EXCEPT !.reqs = IF @ = <<>> THEN @ ELSE Append(@, @[Len(@)]),
              !.last = resp]

\* The attempt is over: its requests are forgotten, its last answer is kept.
closed(r, resp) == [NoRemote EXCEPT !.last = resp]

\* The new item of part_001:116-124; id is a fresh identifier and now the
\* clock's reading.
newItem(g, finalPCM, id, now) ==
    [id |-> id,
     title |-> IF g.title # "" THEN g.title ELSE "Untitled Audio",
     timestamp |-> now,
     duration |-> Len(finalPCM),
     blob |-> encodeSamples(finalPCM),
     mode |-> g.mode,
     voice |-> Voice(g.mode)]

\* GenContinue whose loop requests sentence i again instead of sentence i + 1.
GenContinueSameIndex(g) ==
    IF g.i + 1 < Len(g.sentences)
    THEN /\ gen' = [g EXCEPT !.i = g.i + 1]
         /\ remote' = [issue(remote, At(g.sentences, g.i), g.mode)
                          EXCEPT !.resolved = @ + 1, !.last = NoResponse]
    ELSE /\ LET finalPCM == mergeChunks(g.chunks, g.totalLength)
            IN gen' = [g EXCEPT !.pc = "save",
                                !.finalPCM = finalPCM,
                                !.item = newItem(g, finalPCM, nGen, nGen)]
         /\ remote' = [remote EXCEPT !.resolved = @ + 1, !.saves = @ + 1]

\* GenContinue that merges and saves after the first sentence, whatever the
\* number of sentences.
GenContinueSaveEarly(g) ==
    LET finalPCM == mergeChunks(g.chunks, g.totalLength)
    IN /\ gen' = [g EXCEPT !.pc = "save",
                           !.finalPCM = finalPCM,
                           !.item = newItem(g, finalPCM, nGen, nGen)]
       /\ remote' = [remote EXCEPT !.resolved = @ + 1, !.saves = @ + 1]

\* GenContinue that reads the mode and the title the component shows now,
\* not those of the render in which handleGenerate was invoked.
GenContinueLatestState(g) ==
    IF g.i + 1 < Len(g.sentences)
    THEN /\ gen' = [g EXCEPT !.i = g.i + 1]
         /\ remote' = [issue(remote, At(g.sentences, g.i + 1), mode)
                          EXCEPT !.resolved = @ + 1, !.last = NoResponse]
    ELSE /\ LET finalPCM == mergeChunks(g.chunks, g.totalLength)
                now == [g EXCEPT !.title = title, !.mode = mode]
            IN gen' = [g EXCEPT !.pc = "save",
                                !.finalPCM = finalPCM,
                                !.item = newItem(now, finalPCM, nGen, nGen)]
         /\ remote' = [remote EXCEPT !.resolved = @ + 1, !.saves = @ + 1]

\* After sentence i's samples are pushed: the next request, or the merge
\* and the save.
GenContinue(g) ==
    IF g.i + 1 < Len(g.sentences)
    THEN /\ gen' = [g EXCEPT !.i = g.i + 1]
         /\ remote' = [issue(remote, At(g.sentences, g.i + 1), g.mode)
                          EXCEPT !.resolved = @ + 1, !.last = NoResponse]
    ELSE /\ LET finalPCM == mergeChunks(g.chunks, g.totalLength)
            IN gen' = [g EXCEPT !.pc = "save",
                                !.finalPCM = finalPCM,
                                !.item = newItem(g, finalPCM, nGen, nGen)]
         /\ remote' = [remote EXCEPT !.resolved = @ + 1, !.saves = @ + 1]

\* The answer to the request for sentence gen.i arrives.
GenTTSResolves ==
    /\ gen.pc = "tts"
    /\ \E resp \in Outcomes(At(gen.sentences, gen.i)) :
         LET r == generateTTS(resp)
             g == [gen EXCEPT !.chunks = Append(@, r.pcm),
                              !.totalLength = @ + Len(r.pcm)]
         IN IF r.ok
            THEN /\ GenContinue(g)
                 /\ IF playsOnArrival(gen.i)
                    THEN /\ audioState' = [audioState EXCEPT !.isPlaying = TRUE,
                                                             !.isPaused = FALSE]
                         /\ \E threw \in MayThrow(engine) :
                              engine' = playBuffer(initContext(engine), gen.rate, threw)
                    ELSE UNCHANGED <<audioState, engine>>
                 /\ UNCHANGED <<error, isGenerating>>
            ELSE /\ GenFails(r.message)
                 /\ remote' = closed(remote, resp)
                 /\ UNCHANGED <<audioState, engine>>
    /\ UNCHANGED <<text, title, mode, library, blobPlays, store, nGen, loaded, db>>
    /\ UNCHANGED <<svcVars, deletes, probe, magic>>

\* storage.saveItem(newItem) resolves or rejects.
GenSaveResolves ==
    /\ gen.pc = "save"
    /\ \E ok \in BOOLEAN :
         IF ok
         THEN /\ store' = put(store, gen.item)
              /\ library' = <<gen.item>> \o gen.library
              /\ isGenerating' = FALSE
              /\ gen' = IdleGen
              /\ remote' = closed(remote, NoResponse)
              /\ UNCHANGED error
         ELSE /\ GenFails(Chars("Failed to save audio"))
              /\ remote' = closed(remote, StoreFailure)
              /\ UNCHANGED <<store, library>>
    /\ db' = "open"
    /\ UNCHANGED <<text, title, mode, audioState, engine, blobPlays, nGen, loaded>>
    /\ UNCHANGED <<svcVars, deletes, probe, magic>>

-----------------------------------------------------------------------------
(* handleMagicScript (part_001:37-57).                                     *)

\* A Magic Script button that is never disabled.
NeverDisabled == FALSE

\* disabled={isGenerating} on the Magic Script button.
MagicDisabled == isGenerating

\* disabled={isGenerating || !text.trim()} on the Generate button.
GenerateDisabled == isGenerating \/ IsBlank(text)

\* The click, up to the await: the request carries text || title (the
\* title kept whole, as one element) and the mode of the render in which
\* the button was pressed.
HandleMagicScript ==
    /\ ~MagicDisabled
    /\ IF IsEmptyText(text) /\ title = ""
       THEN /\ error' = TopicMsg
            /\ UNCHANGED <<isGenerating, magic>>
       ELSE /\ isGenerating' = TRUE
            /\ error' = "null"
            /\ magic' = [pc |-> "wait",
                         input |-> IF IsEmptyText(text) THEN <<title>> ELSE text,
                         mode |-> mode]
    /\ UNCHANGED <<text, title, mode, audioState, library, engine, gen,
                   blobPlays, store, remote, nGen, loaded, db>>
    /\ UNCHANGED <<svcVars, deletes, probe>>

\* generateContent resolves, with a script or without text, or rejects;
\* then the finally block.
MagicResolves ==
    /\ magic.pc = "wait"
    /\ \E ok \in BOOLEAN :
         IF ok
         THEN /\ \E t \in Texts : text' = t
              /\ UNCHANGED error
         ELSE /\ error' = MagicMsg
              /\ UNCHANGED text
    /\ isGenerating' = FALSE
    /\ magic' = IdleMagic
    /\ UNCHANGED <<title, mode, audioState, library, engine, gen,
                   blobPlays, store, remote, nGen, loaded, db>>
    /\ UNCHANGED <<svcVars, deletes, probe>>

-----------------------------------------------------------------------------
(* The player (part_001:143-157, 175-193).                                 *)

\* A play that hands the item's own buffer to the decoder, which detaches
\* it: the item is left with an empty payload.
PlayFromLibraryDetaching(item) ==
    /\ Room
    /\ error' = "null"
    /\ audioState' = [audioState EXCEPT !.isPlaying = TRUE, !.isPaused = FALSE]
    /\ engine' = initContext(engine)
    /\ blobPlays' = [blobPlays EXCEPT ![audioState.playbackRate] = @ + 1]
    /\ library' = [k \in DOMAIN library |->
                      IF library[k].id = item.id
                      THEN [library[k] EXCEPT !.blob = <<>>] ELSE library[k]]
    /\ UNCHANGED <<text, title, mode, isGenerating, gen, store, remote,
                   nGen, loaded, db>>
    /\ UNCHANGED <<svcVars, deletes, probe, magic>>

PlayFromLibrary(item) ==
    /\ Room
    /\ error' = "null"
    /\ audioState' = [audioState EXCEPT !.isPlaying = TRUE, !.isPaused = FALSE]
    /\ engine' = initContext(engine)
    /\ blobPlays' = [blobPlays EXCEPT ![audioState.playbackRate] = @ + 1]
    /\ UNCHANGED <<text, title, mode, isGenerating, library, gen, store, remote,
                   nGen, loaded, db>>
    /\ UNCHANGED <<svcVars, deletes, probe, magic>>

\* blob.arrayBuffer() and decodeAudioData() have resolved for a call that
\* was made with this rate.
BlobDecoded(rate) ==
    /\ blobPlays[rate] > 0
    /\ \E threw \in MayThrow(engine) :
         engine' = playBuffer(engine, rate, threw)
    /\ blobPlays' = [blobPlays EXCEPT ![rate] = @ - 1]
    /\ UNCHANGED <<text, title, mode, isGenerating, error, audioState, library,
                   gen, store, remote, nGen, loaded, db>>
    /\ UNCHANGED <<svcVars, deletes, probe, magic>>

TogglePlayback ==
    /\ PlayerShown
    /\ IF audioState.isPaused
       THEN /\ engine' = resume(engine)
            /\ audioState' = [audioState EXCEPT !.isPaused = FALSE,
                                                !.isPlaying = TRUE]
       ELSE /\ engine' = pause(engine)
            /\ audioState' = [audioState EXCEPT !.isPaused = TRUE]
    /\ UNCHANGED <<text, title, mode, isGenerating, error, library, gen,
                   blobPlays, store, remote, nGen, loaded, db>>
    /\ UNCHANGED <<svcVars, deletes, probe, magic>>

StopPlayback ==
    /\ PlayerShown
    /\ \E threw \in MayThrow(engine) : engine' = stop(engine, threw)
    /\ audioState' = [audioState EXCEPT !.isPlaying = FALSE, !.isPaused = FALSE]
    /\ UNCHANGED <<text, title, mode, isGenerating, error, library, gen,
                   blobPlays, store, remote, nGen, loaded, db>>
    /\ UNCHANGED <<svcVars, deletes, probe, magic>>

ChangeRate(rate) ==
    /\ PlayerShown
    /\ audioState' = [audioState EXCEPT !.playbackRate = rate]
    /\ engine' = setPlaybackRate(engine, rate)
    /\ UNCHANGED <<text, title, mode, isGenerating, error, library, gen,
                   blobPlays, store, remote, nGen, loaded, db>>
    /\ UNCHANGED <<svcVars, deletes, probe, magic>>

-----------------------------------------------------------------------------
(* The ended event of a source (Storage.ts:169-172, part_001:91-93,        *)
(* 154-156).  The browser dispatches it when the node has stopped playing: *)
(* because the buffer was played to its end, or because stop() was called  *)
(* on it.  It is dispatched while the context's clock runs.                *)

\* this.currentSource.onended, with the onEnd the caller passed.
onended(k) ==
    /\ engine' = [engine EXCEPT !.sources[k].endedEvents = @ + 1,
                                !.sources[k].finished =
                                    @ \/ engine.sources[k].stopCalls = 0,
                                !.isActuallyPlaying = FALSE]
    /\ audioState' = [audioState EXCEPT !.isPlaying = FALSE]

\* The source plays its buffer to the end.
SourceCompletes(k) ==
    /\ engine.audioCtx = "running"
    /\ Live(engine.sources[k])
    /\ onended(k)
    /\ UNCHANGED <<text, title, mode, isGenerating, error, library, gen,
                   blobPlays, store, remote, nGen, loaded, db>>
    /\ UNCHANGED <<svcVars, deletes, probe, magic>>

\* The event of a source that stop() was called on before it had finished.
\* OnendedKept says the handler is still attached to the stopped node.
OnendedKept == TRUE

SourceStopped(k) ==
    /\ OnendedKept
    /\ engine.audioCtx = "running"
    /\ engine.sources[k].stopCalls > 0
    /\ ~engine.sources[k].finished
    /\ engine.sources[k].endedEvents = 0
    /\ onended(k)
    /\ UNCHANGED <<text, title, mode, isGenerating, error, library, gen,
                   blobPlays, store, remote, nGen, loaded, db>>
    /\ UNCHANGED <<svcVars, deletes, probe, magic>>

-----------------------------------------------------------------------------
(* deleteFromLibrary (part_001:159-162).                                   *)

\* deleteFromLibrary calls that wait for the store at one time.
MaxDeletes == 2

\* library.filter(item => item.id !== id)
withoutId(lib, id) ==
    LET Keep(x) == x.id # id IN SelectSeq(lib, Keep)

\* The click on an item's delete button, up to the await: the call keeps
\* the id and the library of the render in which it was made.
DeleteFromLibrary(item) ==
    /\ Len(deletes) < MaxDeletes
    /\ deletes' = Append(deletes, [id |-> item.id, library |-> library])
    /\ UNCHANGED <<text, title, mode, isGenerating, error, audioState, library,
                   engine, gen, blobPlays, store, remote, nGen, loaded, db>>
    /\ UNCHANGED <<svcVars, probe, magic>>

\* storage.deleteItem(id) settles; on success setLibrary runs with the
\* library the call kept.  A rejection leaves the handler without a
\* setLibrary.
DeleteResolves ==
    /\ deletes # <<>>
    /\ deletes' = Tail(deletes)
    /\ db' = "open"
    /\ LET d == Head(deletes)
           r == deleteRequest(store, d.id)
       IN IF r.ok
          THEN /\ store' = r.items
               /\ library' = withoutId(d.library, d.id)
          ELSE UNCHANGED <<store, library>>
    /\ UNCHANGED <<text, title, mode, isGenerating, error, audioState, engine,
                   gen, blobPlays, remote, nGen, loaded>>
    /\ UNCHANGED <<svcVars, probe, magic>>

-----------------------------------------------------------------------------
(* StorageService (src/services/Storage.ts:8-66), call by call.            *)
(* A call first waits for its own init() when it finds this.db null, then  *)
(* creates its transaction and its request; the store serves the requests  *)
(* in the order they were made.  A call in flight is a record: op, the     *)
(* item or the id it was given, lazy (it waited for init()), and handle,   *)
(* the value of this.db it made its transaction on.                        *)

\* Calls of the service in one run.
MaxCalls == 3

\* An item with a given identifier and title.
ItemOf(id, t) == [OldItem EXCEPT !.id = id, !.title = t]

\* The items the callers save: two identifiers, two contents for each.
SavedItems == {ItemOf(id, t) : id \in {0, 1}, t \in {"Old", "New"}}

\* store.put(item) on the readwrite transaction: the store after it.
putRequest(items, item) == put(items, item)

\* A call that goes on without init().
neverInit(d) == FALSE

\* if (!this.db) await this.init();
needsInit(d) == d = "null"

aCall(op, item, id) ==
    [op |-> op, item |-> item, id |-> id, lazy |-> FALSE, handle |-> "null"]

\* Calls made so far.
Issued == Len(opening) + Len(txns) + done.n

\* The outcome of a call, as the caller's promise settles.
settled(c, result, listed) ==
    [op |-> c.op, item |-> c.item, id |-> c.id, lazy |-> c.lazy,
     handle |-> c.handle, result |-> result, listed |-> listed,
     before |-> store, n |-> done.n + 1]

\* A call up to its first suspension: it waits for init(), or it makes its
\* transaction on this.db at once; this.db!.transaction on null throws, and
\* the promise rejects with the TypeError.
call(c) ==
    /\ IF needsInit(db)
       THEN /\ opening' = Append(opening, [c EXCEPT !.lazy = TRUE])
            /\ UNCHANGED <<txns, done>>
       ELSE IF db = "null"
            THEN /\ done' = settled(c, "TypeError", <<>>)
                 /\ UNCHANGED <<opening, txns>>
            ELSE /\ txns' = Append(txns, [c EXCEPT !.handle = db])
                 /\ UNCHANGED <<opening, done>>
    /\ UNCHANGED <<db, store, appVars, probe>>

saveItem(item) ==
    /\ Issued < MaxCalls
    /\ call(aCall("save", item, item.id))

getItems ==
    /\ Issued < MaxCalls
    /\ call(aCall("list", NoItem, -1))

deleteItem(id) ==
    /\ Issued < MaxCalls
    /\ call(aCall("delete", NoItem, id))

\* request.onsuccess of init(): this.db is set, and the call that waited
\* goes on to make its transaction.
initOpens ==
    /\ opening # <<>>
    /\ db' = "open"
    /\ txns' = Append(txns, [Head(opening) EXCEPT !.handle = "open"])
    /\ opening' = Tail(opening)
    /\ UNCHANGED <<done, store, appVars, probe>>

\* request.onerror of init(): the call that waited rejects.
initFails ==
    /\ opening # <<>>
    /\ done' = settled(Head(opening), "Failed to open IndexedDB", <<>>)
    /\ opening' = Tail(opening)
    /\ UNCHANGED <<db, txns, store, appVars, probe>>

\* The oldest request is served: onsuccess or onerror.
requestSettles ==
    /\ txns # <<>>
    /\ txns' = Tail(txns)
    /\ LET c == Head(txns)
       IN CASE c.op = "save" ->
                 \E ok \in BOOLEAN :
                    IF ok
                    THEN /\ store' = putRequest(store, c.item)
                         /\ done' = settled(c, "ok", <<>>)
                    ELSE /\ store' = store
                         /\ done' = settled(c, "Failed to save audio", <<>>)
            [] c.op = "list" ->
                 /\ store' = store
                 /\ done' = settled(c, "ok", getAll(store))
            [] c.op = "delete" ->
                 LET r == deleteRequest(store, c.id)
                 IN IF r.ok
                    THEN /\ store' = r.items
                         /\ done' = settled(c, "ok", <<>>)
                    ELSE /\ store' = store
                         /\ done' = settled(c, "Failed to delete item", <<>>)
    /\ UNCHANGED <<db, opening, appVars, probe>>

-----------------------------------------------------------------------------
Next ==
    \/ \E t \in Texts : SetText(t)
    \/ LoadLibrary
    \/ HandleGenerate
    \/ GenTTSResolves
    \/ GenSaveResolves
    \/ \E k \in DOMAIN library : PlayFromLibrary(library[k])
    \/ \E r \in Rates : BlobDecoded(r)
    \/ TogglePlayback
    \/ StopPlayback
    \/ \E r \in Rates : ChangeRate(r)
    \/ \E k \in DOMAIN engine.sources : SourceCompletes(k)
    \/ \E k \in DOMAIN engine.sources : SourceStopped(k)

Spec == Init /\ [][Next]_vars

-----------------------------------------------------------------------------
(* The program with an AudioContext that carries out suspend() and         *)
(* resume() after the call has returned.                                   *)

\* Requests the context has not yet carried out.
MaxPending == 2

ClockInit ==
    /\ text = <<>>
    /\ title = "New Voice Studio"
    /\ mode = "STUDY"
    /\ isGenerating = FALSE
    /\ error = "null"
    /\ audioState = [isPlaying |-> FALSE, isPaused |-> FALSE, playbackRate |-> 10]
    /\ library = <<>>
    /\ engine = [NoEngine EXCEPT !.queued = TRUE]
    /\ gen = IdleGen
    /\ blobPlays = [r \in Rates |-> 0]
    /\ store = {OldItem}
    /\ remote = NoRemote
    /\ nGen = 0
    /\ loaded = FALSE
    /\ db = "null"
    /\ opening = <<>>
    /\ txns = <<>>
    /\ done = NoCall
    /\ deletes = <<>>
    /\ magic = IdleMagic
    /\ probe = NoProbe

\* The context carries out the oldest request and its state changes.
ContextSettles ==
    /\ engine.pending # <<>>
    /\ engine' = [engine EXCEPT !.audioCtx = stateAfter(Head(engine.pending)),
                                !.pending = Tail(engine.pending)]
    /\ UNCHANGED <<text, title, mode, isGenerating, error, audioState, library,
                   gen, blobPlays, store, remote, nGen, loaded, db>>
    /\ UNCHANGED <<svcVars, deletes, probe, magic>>

\* The pause button is pressed while the context has room for a request.
ClockNext ==
    \/ \E t \in Texts : SetText(t)
    \/ LoadLibrary
    \/ HandleGenerate
    \/ GenTTSResolves
    \/ GenSaveResolves
    \/ \E k \in DOMAIN library : PlayFromLibrary(library[k])
    \/ \E r \in Rates : BlobDecoded(r)
    \/ (Len(engine.pending) < MaxPending /\ TogglePlayback)
    \/ StopPlayback
    \/ \E r \in Rates : ChangeRate(r)
    \/ \E k \in DOMAIN engine.sources : SourceCompletes(k)
    \/ \E k \in DOMAIN engine.sources : SourceStopped(k)
    \/ ContextSettles

ClockSpec == ClockInit /\ [][ClockNext]_vars

\* A generation while the user edits the script, the title and the mode.
ScriptNext ==
    \/ \E t \in Texts : SetText(t)
    \/ \E t \in Titles : SetTitle(t)
    \/ \E m \in Modes : SetMode(m)
    \/ HandleGenerate
    \/ GenTTSResolves
    \/ GenSaveResolves

ScriptSpec == Init /\ [][ScriptNext]_vars

\* The library under loads, generations and deletions.
LibraryNext ==
    \/ \E t \in Texts : SetText(t)
    \/ LoadLibrary
    \/ HandleGenerate
    \/ GenTTSResolves
    \/ GenSaveResolves
    \/ \E k \in DOMAIN library : DeleteFromLibrary(library[k])
    \/ DeleteResolves

LibrarySpec == Init /\ [][LibraryNext]_vars

\* The generation, with the load, the deletions and the edits around it,
\* when every call the attempt awaits is answered: each speech request and
\* the save eventually resolve or reject.
FairSpec ==
    /\ Init
    /\ [][LibraryNext]_vars
    /\ WF_vars(GenTTSResolves)
    /\ WF_vars(GenSaveResolves)

\* Both generating handlers, Magic Script and Generate, and the edits.
\* Generate is pressed on its button, which a blank text disables.
MagicNext ==
    \/ \E t \in Texts : SetText(t)
    \/ \E t \in Titles : SetTitle(t)
    \/ \E m \in Modes : SetMode(m)
    \/ HandleMagicScript
    \/ MagicResolves
    \/ (~GenerateDisabled /\ HandleGenerate)
    \/ GenTTSResolves
    \/ GenSaveResolves

MagicSpec == Init /\ [][MagicNext]_vars

\* The StorageService under any sequence of calls.
StoreNext ==
    \/ \E item \in SavedItems : saveItem(item)
    \/ getItems
    \/ \E id \in {0, 1} : deleteItem(id)
    \/ initOpens
    \/ initFails
    \/ requestSettles

StoreSpec == Init /\ [][StoreNext]_vars

-----------------------------------------------------------------------------
(* The text helpers applied to a script.                                   *)

\* Length of the scripts the helpers are applied to.
MaxTextLen == 5

TextAlphabet == {"a", ".", " ", "\n", "[", "]", "(", ")", "-", "#"}

\* The strings over an alphabet, up to a length.
Strings(A, n) == UNION {[1..k -> A] : k \in 0..n}

TextInit ==
    /\ probe \in {[f |-> "none", x |-> s, y |-> <<>>] :
                     s \in Strings(TextAlphabet, MaxTextLen)}
    /\ text = <<>>
    /\ title = "New Voice Studio"
    /\ mode = "STUDY"
    /\ isGenerating = FALSE
    /\ error = "null"
    /\ audioState = [isPlaying |-> FALSE, isPaused |-> FALSE, playbackRate |-> 10]
    /\ library = <<>>
    /\ engine = NoEngine
    /\ gen = IdleGen
    /\ blobPlays = [r \in Rates |-> 0]
    /\ store = {OldItem}
    /\ remote = NoRemote
    /\ nGen = 0
    /\ loaded = FALSE
    /\ db = "null"
    /\ opening = <<>>
    /\ txns = <<>>
    /\ done = NoCall
    /\ deletes = <<>>
    /\ magic = IdleMagic

\* cleanTextForTTS applied to the script, or to its own result.
Normalize ==
    /\ probe.f \in {"none", "cleanTextForTTS"}
    /\ LET x == IF probe.f = "none" THEN probe.x ELSE probe.y
       IN probe' = [f |-> "cleanTextForTTS", x |-> x, y |-> cleanTextForTTS(x)]
    /\ UNCHANGED <<appVars, svcVars, store, db>>

\* splitIntoSentences applied to the script.
Segment ==
    /\ probe.f = "none"
    /\ probe' = [f |-> "splitIntoSentences", x |-> probe.x,
                 y |-> splitIntoSentences(probe.x)]
    /\ UNCHANGED <<appVars, svcVars, store, db>>

TextNext == Normalize \/ Segment

TextSpec == TextInit /\ [][TextNext]_vars

-----------------------------------------------------------------------------
(* The encoders applied to a sample buffer.                                *)

\* Samples in the buffers the encoders are applied to.
MaxSamples == 2

\* Samples, as 32768 times their value: inside [-1, 1] and beyond it.
SampleValues == {-40000, -32768, -1, 0, 1, 16384, 32768, 40000}

SampleRates == {8000, 24000, 48000}

EncodeInit ==
    /\ probe \in {[f |-> "none",
                   x |-> [pcmData |-> pcm, sampleRate |-> r, lame |-> l],
                   y |-> <<>>] :
                     pcm \in UNION {[1..k -> SampleValues] : k \in 0..MaxSamples},
                     r \in SampleRates, l \in Backends}
    /\ text = <<>>
    /\ title = "New Voice Studio"
    /\ mode = "STUDY"
    /\ isGenerating = FALSE
    /\ error = "null"
    /\ audioState = [isPlaying |-> FALSE, isPaused |-> FALSE, playbackRate |-> 10]
    /\ library = <<>>
    /\ engine = NoEngine
    /\ gen = IdleGen
    /\ blobPlays = [r \in Rates |-> 0]
    /\ store = {OldItem}
    /\ remote = NoRemote
    /\ nGen = 0
    /\ loaded = FALSE
    /\ db = "null"
    /\ opening = <<>>
    /\ txns = <<>>
    /\ done = NoCall
    /\ deletes = <<>>
    /\ magic = IdleMagic

PcmToWav ==
    /\ probe.f = "none"
    /\ probe' = [probe EXCEPT !.f = "pcmToWav",
                              !.y = pcmToWav(probe.x.pcmData, probe.x.sampleRate)]
    /\ UNCHANGED <<appVars, svcVars, store, db>>

PcmToMp3 ==
    /\ probe.f = "none"
    /\ probe' = [probe EXCEPT !.f = "pcmToMp3",
                              !.y = pcmToMp3(probe.x.pcmData, probe.x.sampleRate,
                                             probe.x.lame)]
    /\ UNCHANGED <<appVars, svcVars, store, db>>

EncodeNext == PcmToWav \/ PcmToMp3

EncodeSpec == EncodeInit /\ [][EncodeNext]_vars

\* ---- pcmToMp3 on buffers of several blocks, the library present ----

MaxBlocks == 3

\* Lengths at, just past and just short of a whole number of blocks.
BlockLengths ==
    {k * sampleBlockSize + d : k \in 0..(MaxBlocks - 1),
                               d \in {0, 1, sampleBlockSize - 1}}
        \cup {MaxBlocks * sampleBlockSize}

\* A buffer of n samples that differ from their neighbours.
Ramp(n, a) == [j \in 1..n |-> a * j]

Mp3Init ==
    /\ probe \in {[f |-> "none",
                   x |-> [pcmData |-> Ramp(n, a), sampleRate |-> r, lame |-> l],
                   y |-> <<>>] :
                     n \in BlockLengths, a \in {-1, 1, 9},
                     r \in SampleRates, l \in Backends \ {"undefined"}}
    /\ text = <<>>
    /\ title = "New Voice Studio"
    /\ mode = "STUDY"
    /\ isGenerating = FALSE
    /\ error = "null"
    /\ audioState = [isPlaying |-> FALSE, isPaused |-> FALSE, playbackRate |-> 10]
    /\ library = <<>>
    /\ engine = NoEngine
    /\ gen = IdleGen
    /\ blobPlays = [r \in Rates |-> 0]
    /\ store = {OldItem}
    /\ remote = NoRemote
    /\ nGen = 0
    /\ loaded = FALSE
    /\ db = "null"
    /\ opening = <<>>
    /\ txns = <<>>
    /\ done = NoCall
    /\ deletes = <<>>
    /\ magic = IdleMagic

\* pcmToMp3 is called; the calls it made on the encoder are kept with the
\* Blob it returned.
Mp3Encode ==
    /\ probe.f = "none"
    /\ probe' = [probe EXCEPT
           !.f = "mp3",
           !.y = [blob |-> pcmToMp3(probe.x.pcmData, probe.x.sampleRate,
                                    probe.x.lame),
                  calls |-> mp3Run(probe.x.pcmData, probe.x.lame).enc.calls,
                  mp3Data |-> mp3Run(probe.x.pcmData, probe.x.lame).mp3Data]]
    /\ UNCHANGED <<appVars, svcVars, store, db>>

Mp3Next == Mp3Encode

Mp3Spec == Mp3Init /\ [][Mp3Next]_vars

-----------------------------------------------------------------------------
(* Properties.                                                             *)

\* C1. Exclusive current source: at most one source is started and neither
\* stopped nor finished; no source was live when a new one was created; and
\* stop() has been called exactly once on every source that left the
\* current-source slot, never on the source that is in it.
C1_ExclusiveSource ==
    /\ Cardinality(LiveSources(engine)) <= 1
    /\ \A k \in DOMAIN engine.sources :
          /\ engine.sources[k].liveBefore = 0
          /\ engine.sources[k].stopCalls =
                 IF k = engine.currentSource THEN 0 ELSE 1

\* A source that was still playing was replaced by a later play.
C1_Witness ==
    /\ Len(engine.sources) >= 2
    /\ ~engine.sources[1].finished
    /\ engine.sources[1].stopCalls = 1
    /\ engine.currentSource = 2
    /\ Live(engine.sources[2])

\* C2. The end callback runs only for a source that played to its end, and
\* once: never for a source that stop() tore down (by stopPlayback or by
\* the play that replaced it).
C2_EndOnlyOnCompletion ==
    \A k \in DOMAIN engine.sources :
        /\ engine.sources[k].endedEvents <= 1
        /\ engine.sources[k].endedEvents = 1 => engine.sources[k].finished

\* The per-sentence sample buffers of the attempt, from the audio the remote
\* voice speaks for each sentence.
SentenceBuffers == [k \in DOMAIN gen.sentences |-> Int16Array(Speech(gen.sentences[k]))]

RECURSIVE SumLen(_, _)
SumLen(bufs, n) == IF n = 0 THEN 0 ELSE Len(bufs[n]) + SumLen(bufs, n - 1)

\* C3. Within an attempt the requests go out one per sentence, in sentence
\* order; request i+1 is issued only when request i has resolved; at most one
\* request is in flight.
C3_SequentialRequests ==
    /\ Len(remote.reqs) - remote.resolved \in {0, 1}
    /\ Len(remote.reqs) <= Len(gen.sentences)
    /\ \A j \in DOMAIN remote.reqs : remote.reqs[j].sentence = gen.sentences[j]
    /\ gen.pc = "tts" => Len(remote.reqs) = gen.i + 1 /\ remote.resolved = gen.i
    /\ gen.pc = "save" => /\ Len(remote.reqs) = Len(gen.sentences)
                          /\ remote.resolved = Len(gen.sentences)

\* The second sentence's request is in flight, the first has resolved.
C3_Witness ==
    /\ gen.pc = "tts"
    /\ gen.i = 1
    /\ Len(remote.reqs) = 2
    /\ remote.resolved = 1

\* C4. Once every sentence is generated, the final buffer is the per-sentence
\* buffers in sentence order, back to back: its length is the sum of their
\* lengths, and sentence k's samples start at the sum of the lengths before.
C4_ConcatenationInOrder ==
    gen.pc = "save" =>
        /\ Len(gen.finalPCM) = SumLen(SentenceBuffers, Len(gen.sentences))
        /\ gen.item.duration = Len(gen.finalPCM)
        /\ \A k \in DOMAIN gen.sentences :
             \A j \in DOMAIN SentenceBuffers[k] :
                gen.finalPCM[SumLen(SentenceBuffers, k - 1) + j]
                    = SentenceBuffers[k][j]

\* A script of two sentences has been generated and merged.
C4_Witness ==
    /\ gen.pc = "save"
    /\ Len(gen.sentences) = 2
    /\ gen.finalPCM = <<1, 2, -1>>

\* A response that ends the attempt.
IsFailure(resp) == resp.kind \in {"error", "noaudio", "typeerror", "store"}

\* C5. A save is issued exactly when every sentence has been generated, and
\* once; the store changes only by that save succeeding; a step in which the
\* attempt fails changes neither the store nor the displayed library.
C5_SaveOnlyAfterAll ==
    [][ /\ remote'.saves <= 1
        /\ (remote'.saves = 1) = (gen'.pc = "save")
        /\ gen'.pc = "save" =>
              /\ remote'.resolved = Len(gen'.sentences)
              /\ Len(gen'.chunks) = Len(gen'.sentences)
        /\ store' # store =>
              /\ gen.pc = "save"
              /\ store' = put(store, gen.item)
              /\ gen.item.id \notin {x.id : x \in store}
        /\ (remote'.last # remote.last /\ IsFailure(remote'.last)) =>
              /\ store' = store
              /\ library' = library
              /\ gen'.pc = "idle"
              /\ remote'.saves = 0 ]_vars

\* An attempt was aborted by the quota error, and nothing was saved.
C5_Witness ==
    /\ error = QuotaMsg
    /\ gen.pc = "idle"
    /\ nGen = 1
    /\ store = {OldItem}

\* The remote call failed with a quota signal: status 429, or a message
\* that contains "quota".
QuotaSignal(resp) ==
    /\ resp.kind = "error"
    /\ resp.status = 429 \/ Includes(resp.message, Chars("quota"))

BlankScript == \A j \in DOMAIN text : IsSpace(text[j])

\* C7. handleGenerate on a blank script sets the input error and nothing
\* else: no request, no change of the engine or the session, no store write,
\* and isGenerating stays false.
C7_BlankScriptIsInputError ==
    [][ (nGen' # nGen /\ BlankScript) =>
            /\ error' = InputMsg
            /\ ~isGenerating'
            /\ UNCHANGED <<isGenerating, gen, remote, engine, audioState,
                           blobPlays, store, library>> ]_vars

\* The input error is shown for a script of white space.
C7_Witness ==
    /\ error = InputMsg
    /\ text = <<" ">>
    /\ nGen = 1

\* C8. stop() never raises, and in whatever state the controller is, a call
\* of stop() returns with the current-source slot empty and the engine not
\* playing, also when the node's own stop() throws.
C8_StopFromAnyState ==
    /\ ~engine.raised
    /\ \A threw \in BOOLEAN :
          LET e == stop(engine, threw)
          IN /\ e.currentSource = 0
             /\ ~e.isActuallyPlaying
             /\ ~e.raised
             /\ e.sources = [k \in DOMAIN engine.sources |->
                               IF k = engine.currentSource
                               THEN [engine.sources[k] EXCEPT !.stopCalls = @ + 1]
                               ELSE engine.sources[k]]

\* stop() was called on a source that had already played to its end.
C8_Witness ==
    /\ engine.currentSource = 0
    /\ ~engine.isActuallyPlaying
    /\ ~audioState.isPlaying
    /\ \E k \in DOMAIN engine.sources :
          engine.sources[k].finished /\ engine.sources[k].stopCalls = 1

\* C9. togglePlayback from Playing suspends the clock and shows Paused; from
\* Paused it resumes the clock and shows Playing; either way the
\* current-source slot, the source and its rate stay as they were.
C9_PauseResumeKeepSource ==
    [][ TogglePlayback =>
            /\ engine'.currentSource = engine.currentSource
            /\ engine'.sources = engine.sources
            /\ engine'.rate = engine.rate
            /\ engine'.isActuallyPlaying = engine.isActuallyPlaying
            /\ ~audioState.isPaused =>
                  audioState'.isPaused /\ engine'.audioCtx = "suspended"
            /\ audioState.isPaused =>
                  /\ ~audioState'.isPaused
                  /\ audioState'.isPlaying
                  /\ engine'.audioCtx = "running" ]_vars

\* A live source is paused: the clock is suspended and the source is in place.
C9_Witness ==
    /\ audioState.isPaused
    /\ audioState.isPlaying
    /\ engine.audioCtx = "suspended"
    /\ engine.currentSource # 0
    /\ Live(engine.sources[engine.currentSource])

\* C10. Every play starts its source at the rate most recently set.
C10_PlayUsesLatestRate ==
    [][ Len(engine'.sources) > Len(engine.sources) =>
            engine'.rate = audioState.playbackRate ]_vars

\* A StorageService call settles in this step.
Settles == done'.n # done.n

\* C11. save is an upsert by identifier: the store never holds two items
\* with one identifier, and a save that succeeds leaves exactly one item
\* with its identifier, the item it was given, and every other item as it
\* was.
C11_SaveIsUpsert ==
    [][ /\ \A x, y \in store' : x.id = y.id => x = y
        /\ (Settles /\ done'.op = "save" /\ done'.result = "ok") =>
              /\ {x \in store' : x.id = done'.item.id} = {done'.item}
              /\ {x \in store' : x.id # done'.item.id}
                     = {x \in store : x.id # done'.item.id} ]_vars

\* Identifier 1 was saved twice with different data: the store holds the
\* second save's item and not the first's.
C11_Witness ==
    /\ done.op = "save"
    /\ done.result = "ok"
    /\ done.item = ItemOf(1, "New")
    /\ ItemOf(1, "Old") \in done.before
    /\ {x \in store : x.id = 1} = {ItemOf(1, "New")}

Performed(c, items) ==
    CASE c.op = "save" -> put(items, c.item)
      [] c.op = "delete" -> {x \in items : x.id # c.id}
      [] OTHER -> items

\* C13. A call made while this.db is null waits for init() and then makes
\* its transaction on the opened handle; no transaction is ever made on a
\* null handle; and a call that waited settles with the same result as the
\* operation has on an initialised store, also when several calls were made
\* before the first init() completed.
C13_LazyInit ==
    [][ /\ \A k \in DOMAIN txns' : txns'[k].handle = "open"
        /\ Len(opening') > Len(opening) => db = "null"
        /\ (Len(txns') > Len(txns)) => db' = "open"
        /\ Settles =>
              /\ done'.result # "TypeError"
              /\ done'.result = "ok" =>
                    /\ done'.handle = "open"
                    /\ store' = Performed(done', store)
                    /\ done'.listed =
                          IF done'.op = "list" THEN getAll(store) ELSE <<>>
              /\ done'.result # "ok" => store' = store ]_vars

\* Two calls were made before the first init() completed; the first has
\* settled and the second has its request with the store.
C13_Witness ==
    /\ done.lazy
    /\ done.result = "ok"
    /\ done.op = "save"
    /\ done.item \in store
    /\ txns # <<>>
    /\ txns[1].lazy
    /\ txns[1].op = "list"

\* C14. The displayed library is ordered newest-first by timestamp, after
\* any sequence of loads, generations and deletions.
C14_LibraryNewestFirst ==
    \A j, k \in DOMAIN library :
        j < k => library[j].timestamp >= library[k].timestamp

\* The library holds the generated item before the older one, after the
\* load and a deletion that resolved with the library it had kept.
C14_Witness ==
    /\ loaded
    /\ Len(library) = 2
    /\ library[1].timestamp > library[2].timestamp
    /\ Ids(store) = {1}

\* C15. Text normalization is idempotent: applied to its own result it
\* returns that result.
C15_NormalizeIdempotent ==
    [][ (probe.f = "cleanTextForTTS" /\ probe'.f = "cleanTextForTTS") =>
            probe'.y = probe.y ]_vars

\* The script has a sentence terminator followed by white space.
HasBreak(x) ==
    \E i \in 2..Len(x) : IsTerminator(x[i - 1]) /\ IsSpace(x[i])

\* C16. segment returns at least one unit for every non-empty input, and
\* the whole input as its one unit when the input has no terminator
\* followed by white space.
C16_AtLeastOneUnit ==
    (probe.f = "splitIntoSentences" /\ probe.x # <<>>) =>
        /\ Len(probe.y) >= 1
        /\ ~HasBreak(probe.x) => probe.y = <<probe.x>>

\* The units occur in x one after the other, from position i on.
RECURSIVE OccurInOrder(_, _, _)
OccurInOrder(units, x, i) ==
    IF units = <<>> THEN TRUE
    ELSE LET u == Head(units)
             At0 == {k \in i..(Len(x) - Len(u) + 1) :
                        SubSeq(x, k, k + Len(u) - 1) = u}
         IN /\ At0 # {}
            /\ OccurInOrder(Tail(units), x,
                            (CHOOSE k \in At0 : \A m \in At0 : k <= m) + Len(u))

\* C17. Every unit segment returns is non-empty, has no leading or trailing
\* white space, and the units appear in the order they have in the input.
C17_UnitsTrimmedInOrder ==
    probe.f = "splitIntoSentences" =>
        /\ \A k \in DOMAIN probe.y :
              /\ probe.y[k] # <<>>
              /\ Trim(probe.y[k]) = probe.y[k]
        /\ OccurInOrder(probe.y, probe.x, 1)

\* The little-endian readers of a WAV parser, at a 0-based offset.
U16At(b, off) == b[off + 1] + 256 * b[off + 2]

U32At(b, off) ==
    b[off + 1] + 256 * b[off + 2] + 65536 * b[off + 3] + 16777216 * b[off + 4]

I16At(b, off) ==
    IF U16At(b, off) >= 32768 THEN U16At(b, off) - 65536 ELSE U16At(b, off)

\* v is the 16-bit value of the sample x (32768 times a float): x clamped
\* to [-1, 1], times 32768 when negative, times 32767 and truncated if not.
Quantizes(v, x) ==
    LET c == IF x < -32768 THEN -32768 ELSE IF x > 32768 THEN 32768 ELSE x
    IN IF c < 0 THEN v = c
       ELSE v * 32768 <= c * 32767 /\ c * 32767 < (v + 1) * 32768

\* C18. For n samples and sample rate r the WAV fallback returns 44 + 2n
\* bytes: the tags, chunk size 36 + 2n, format-chunk size 16, format code 1,
\* one channel, sample rate r, byte rate 2r, block align 2, 16 bits per
\* sample, data size 2n, then the n samples in input order as 16-bit
\* little-endian values.
C18_WavLayout ==
    probe.f = "pcmToWav" =>
        LET b == probe.y.bytes
            n == Len(probe.x.pcmData)
            r == probe.x.sampleRate
        IN /\ ~probe.y.thrown
           /\ probe.y.type = "audio/wav"
           /\ Len(b) = 44 + 2 * n
           /\ SubSeq(b, 1, 4) = <<82, 73, 70, 70>>
           /\ U32At(b, 4) = 36 + 2 * n
           /\ SubSeq(b, 9, 16) = <<87, 65, 86, 69, 102, 109, 116, 32>>
           /\ U32At(b, 16) = 16
           /\ U16At(b, 20) = 1
           /\ U16At(b, 22) = 1
           /\ U32At(b, 24) = r
           /\ U32At(b, 28) = 2 * r
           /\ U16At(b, 32) = 2
           /\ U16At(b, 34) = 16
           /\ SubSeq(b, 37, 40) = <<100, 97, 116, 97>>
           /\ U32At(b, 40) = 2 * n
           /\ \A j \in 1..Len(b) : b[j] \in 0..255
           /\ \A i \in 1..n :
                 Quantizes(I16At(b, 44 + 2 * (i - 1)), probe.x.pcmData[i])

\* Two samples at 24000 Hz, a negative one first: the bytes after the
\* header are ff ff, then ff 3f.
C18_Witness ==
    /\ probe.f = "pcmToWav"
    /\ probe.x.pcmData = <<-1, 16384>>
    /\ probe.x.sampleRate = 24000
    /\ SubSeq(probe.y.bytes, 45, 48) = <<255, 255, 255, 63>>
    /\ SubSeq(probe.y.bytes, 25, 32) = <<192, 93, 0, 0, 128, 187, 0, 0>>

\* C19. encode always returns a payload: without the backend it returns
\* the WAV fallback of the same samples and does not throw, and it returns
\* the WAV fallback only without the backend.
C19_EncodeFallback ==
    probe.f = "pcmToMp3" =>
        /\ ~probe.y.thrown
        /\ probe.y.type \in {"audio/mp3", "audio/wav"}
        /\ probe.x.lame = "undefined" =>
              probe.y = pcmToWav(probe.x.pcmData, probe.x.sampleRate)
        /\ probe.y.type = "audio/wav" => probe.x.lame = "undefined"

\* Without the backend, two samples come back as 48 bytes of WAV.
C19_Witness ==
    /\ probe.f = "pcmToMp3"
    /\ probe.x.lame = "undefined"
    /\ Len(probe.x.pcmData) = 2
    /\ probe.y.type = "audio/wav"
    /\ Len(probe.y.bytes) = 48

\* C20. The script is a snapshot once generation begins: the attempt's
\* sentences, title and mode are those of the moment Generate was pressed
\* and no edit changes them; every request carries a sentence of that
\* snapshot and the voice of its mode; and the item that is saved has the
\* snapshot's title, mode and voice.
C20_ScriptSnapshot ==
    [][ /\ (gen.pc = "idle" /\ gen'.pc # "idle") =>
              /\ gen'.sentences = splitIntoSentences(text)
              /\ gen'.title = title
              /\ gen'.mode = mode
              /\ remote'.reqs = <<[sentence |-> splitIntoSentences(text)[1],
                                   voice |-> Voice(mode)]>>
        /\ (gen.pc # "idle" /\ gen'.pc # "idle") =>
              /\ gen'.sentences = gen.sentences
              /\ gen'.title = gen.title
              /\ gen'.mode = gen.mode
        /\ (gen.pc # "idle" /\ Len(remote'.reqs) > Len(remote.reqs)) =>
              /\ remote'.reqs[Len(remote'.reqs)].sentence
                     = gen.sentences[Len(remote'.reqs)]
              /\ remote'.reqs[Len(remote'.reqs)].voice = Voice(gen.mode)
        /\ gen'.pc = "save" =>
              /\ gen'.item.mode = gen.mode
              /\ gen'.item.voice = Voice(gen.mode)
              /\ gen'.item.title =
                    IF gen.title = "" THEN "Untitled Audio" ELSE gen.title
        /\ store' # store => store' = store \cup {gen.item} ]_vars

\* Text, title and mode were all edited during the attempt; both requests
\* went out with the snapshot's voice and the item to save has the
\* snapshot's title and mode.
C20_Witness ==
    /\ gen.pc = "save"
    /\ Len(gen.sentences) = 2
    /\ text = <<"a", ".">>
    /\ title = ""
    /\ mode = "STORY"
    /\ gen.item.title = "New Voice Studio"
    /\ gen.item.mode = "STUDY"
    /\ gen.item.voice = "Kore"

\* C21. A step that touches the engine, the playback session or a pending
\* play (play from the library, the decoder's answer, pause, resume, stop,
\* a change of rate, the end of a source) leaves the store and every item
\* of the displayed library as they were.
C21_PlaybackLeavesItems ==
    [][ (engine' # engine \/ audioState' # audioState \/ blobPlays' # blobPlays)
            => (store' = store /\ library' = library) ]_vars

\* The stored item was played at the changed rate, paused, resumed, and
\* played to its end; store and library hold it as it was.
C21_Witness ==
    /\ nGen = 0
    /\ store = {OldItem}
    /\ library = <<OldItem>>
    /\ Len(engine.sources) = 2
    /\ engine.sources[2].finished
    /\ engine.sources[2].endedEvents = 1
    /\ engine.rate = 20
    /\ ~audioState.isPlaying
    /\ audioState.isPaused

NonEmpty(buf) == Len(buf) > 0

\* C22. On the compression path the encoder is fed consecutive blocks of at
\* most 1152 samples that cover every sample once and in order, only the
\* last block being shorter; flush is called once, after the last block;
\* and the payload is the non-empty chunks the calls returned, in the
\* order of the calls, the output of flush last.
C22_BlocksThenFlush ==
    (probe.f = "mp3" /\ probe.y.blob.type = "audio/mp3") =>
        LET calls   == probe.y.calls
            n       == Len(calls)
            samples == encodeSamples(probe.x.pcmData)
            outs    == [k \in 1..n |-> calls[k].out]
        IN /\ n >= 1
           /\ calls[n].op = "flush"
           /\ \A k \in 1..(n - 1) :
                 /\ calls[k].op = "encodeBuffer"
                 /\ Len(calls[k].arg) \in 1..1152
                 /\ k < n - 1 => Len(calls[k].arg) = 1152
                 /\ calls[k].arg =
                        SubSeq(samples, (k - 1) * 1152 + 1,
                               (k - 1) * 1152 + Len(calls[k].arg))
           /\ IF n = 1 THEN Len(samples) = 0
              ELSE (n - 2) * 1152 + Len(calls[n - 1].arg) = Len(samples)
           /\ probe.y.mp3Data = SelectSeq(outs, NonEmpty)
           /\ probe.y.blob.bytes = Blob(outs)
           /\ SubSeq(probe.y.blob.bytes,
                     Len(probe.y.blob.bytes) - Len(calls[n].out) + 1,
                     Len(probe.y.blob.bytes)) = calls[n].out

\* 2305 samples went to an encoder that holds a frame back: three blocks,
\* the last of one sample, nothing from the first call, and the last frame
\* from flush.
C22_Witness ==
    /\ probe.f = "mp3"
    /\ probe.x.lame = "lamejs-held"
    /\ Len(probe.x.pcmData) = 2305
    /\ Len(probe.y.calls) = 4
    /\ probe.y.calls[1].out = <<>>
    /\ Len(probe.y.calls[3].arg) = 1
    /\ probe.y.calls[4].op = "flush"
    /\ Len(probe.y.calls[4].out) = 1
    /\ Len(probe.y.mp3Data) = 3

\* C23. Playback is progressive: no source is started when Generate is
\* pressed; in the step that issues the request for sentence 1 the answer
\* for sentence 0 has resolved and its buffer is the started, current, live
\* source; and the answers for sentences 1 and later leave the engine, and
\* with it the source that is playing, untouched.
C23_ProgressivePlayback ==
    [][ /\ (gen.pc = "idle" /\ gen'.pc = "tts") => engine' = engine
        /\ (gen.pc = "tts" /\ Len(remote.reqs) = 1 /\ Len(remote'.reqs) = 2) =>
              /\ remote'.resolved = 1
              /\ Len(engine'.sources) = Len(engine.sources) + 1
              /\ engine'.currentSource = Len(engine'.sources)
              /\ Live(engine'.sources[engine'.currentSource])
              /\ engine'.isActuallyPlaying
        /\ (gen.pc = "tts" /\ gen.i >= 1 /\ gen' # gen) => engine' = engine
      ]_vars

\* Two sentences: the second one's samples have arrived and the item is
\* being saved while the first one's source, the only one, still plays.
C23_Witness ==
    /\ gen.pc = "save"
    /\ Len(gen.sentences) = 2
    /\ Len(gen.chunks) = 2
    /\ Len(engine.sources) = 1
    /\ engine.currentSource = 1
    /\ Live(engine.sources[1])
    /\ engine.audioCtx = "running"

\* C24. No call is retried: a step issues at most one remote call, and only
\* for the attempt's next sentence (at the start of the attempt, or after
\* the previous sentence's call succeeded); and the step in which a call
\* of the attempt fails ends the attempt, with no call issued or in flight.
C24_NoRetry ==
    [][ /\ Len(remote'.reqs) > Len(remote.reqs) =>
              /\ Len(remote'.reqs) = Len(remote.reqs) + 1
              /\ gen'.pc = "tts"
              /\ Len(remote'.reqs) = gen'.i + 1
              /\ remote'.reqs[Len(remote'.reqs)].sentence
                     = gen'.sentences[Len(remote'.reqs)]
              /\ gen.pc = "tts" => (gen'.i = gen.i + 1 /\ remote'.last = NoResponse)
        /\ (gen.pc = "tts" /\ gen'.pc = "idle") =>
              /\ ~generateTTS(remote'.last).ok
              /\ remote'.reqs = <<>>
              /\ ~isGenerating'
              /\ error' \in {QuotaMsg, GenericMsg}
        /\ gen.pc \in {"idle", "save"} /\ gen'.pc # "tts" =>
              Len(remote'.reqs) <= Len(remote.reqs)
      ]_vars

\* The first sentence was spoken and is playing; the call for the second
\* one failed with a server error, and nothing more was asked or saved.
C24_Witness ==
    /\ gen.pc = "idle"
    /\ nGen = 1
    /\ ~loaded
    /\ Len(engine.sources) = 1
    /\ remote.last.kind = "error"
    /\ remote.last.status = 500
    /\ remote.reqs = <<>>
    /\ error = GenericMsg
    /\ store = {OldItem}

\* C25. Once the initial load, the generation and every deletion have
\* completed, the identifiers of the displayed library are those of the
\* store.
C25_LibraryAgreesWithStore ==
    (loaded /\ gen.pc = "idle" /\ deletes = <<>>) =>
        {library[k].id : k \in DOMAIN library} = Ids(store)

\* C26. Whenever the engine's current source is started and has neither
\* ended nor been stopped, the session has isPlaying or isPaused set, so
\* that the player is shown, and the engine's playing flag is true.
C26_SessionAgreesWithEngine ==
    (engine.currentSource # 0 /\ Live(engine.sources[engine.currentSource])) =>
        (PlayerShown /\ engine.isActuallyPlaying)

\* C27. Generate and Magic Script exclude each other: at most one of the
\* two handlers is in progress, at most one remote generation request,
\* for speech or for a script, is in flight, and isGenerating is true
\* exactly while a handler is in progress.
C27_OneHandlerAtATime ==
    /\ ~(gen.pc # "idle" /\ magic.pc # "idle")
    /\ (Len(remote.reqs) - remote.resolved)
           + (IF magic.pc = "wait" THEN 1 ELSE 0) <= 1
    /\ isGenerating <=> (gen.pc # "idle" \/ magic.pc # "idle")

\* A script is awaited after a generation has run to its end: the flag is
\* up for Magic Script alone.
C27_Witness ==
    /\ magic.pc = "wait"
    /\ nGen = 1
    /\ gen.pc = "idle"
    /\ isGenerating
    /\ remote.reqs = <<>>

\* C28. When every call it awaits is answered, a generation attempt comes
\* to an end, whatever the answers are, with isGenerating reset to false,
\* which is what the Generate button and handleGenerate ask for before a
\* new attempt.
C28_AttemptTerminates ==
    (gen.pc # "idle") ~> (gen.pc = "idle" /\ ~isGenerating)

\* An attempt of two sentences has ended with its item saved and shown,
\* and the flag is down.
C28_Witness ==
    /\ nGen = 1
    /\ gen.pc = "idle"
    /\ ~isGenerating
    /\ error = "null"
    /\ Len(library) >= 1
    /\ library[1].id = 1
    /\ library[1].duration = 3

\* C29. A session shown as Playing is not left suspended: whenever the
\* session is marked playing and not paused and the current source is
\* live, the audio clock is running, or will be once the context has
\* carried out what it was asked.
C29_PlayingNotSuspended ==
    (/\ audioState.isPlaying
     /\ ~audioState.isPaused
     /\ engine.currentSource # 0
     /\ Live(engine.sources[engine.currentSource]))
        => clockAfter(engine) = "running"
====
